---- MODULE Spec2Model ----
(***************************************************************************)
(* Scheduled-message engine of discord-role-guardian:                      *)
(*   handlers/scheduledMessages.js  (calculateNextExecution,               *)
(*     executeScheduledMessage, scheduleMessage, setupScheduledMessages,   *)
(*     cancelScheduledMessage, the scheduleAdded / guildConfigReset        *)
(*     listeners, the activeTimers map),                                   *)
(*   data/storage.js  (scheduledMessages map, saveScheduledMessage,        *)
(*     removeScheduledMessage, saveToFile, loadAllConfigs,                 *)
(*     resetGuildConfig, setBotClient),                                    *)
(*   commands schedule-message, remove-scheduled, reset, and the           *)
(*   clientReady handler of index.js.                                      *)
(*                                                                         *)
(* Time is counted in whole minutes since 1970-01-01T00:00Z (a Thursday).  *)
(* A Date is its time value in minutes; hours and timezone offsets are     *)
(* kept in half-hours so that offsets such as +5.5 are integers.           *)
(***************************************************************************)
EXTENDS Integers, Sequences, FiniteSets, TLC

(***************************************************************************)
(* Bounds of the model.                                                    *)
(***************************************************************************)
\* guilds are 1..NumGuilds
NumGuilds == 2
\* schedule-message commands accepted over a behaviour
MaxCreates == 2
\* administrative commands (schedule-message, remove-scheduled, reset) over a behaviour
MaxCommands == 3
\* days the clock may run past the start of a behaviour
MaxDays == 2
\* channel.send invocations recorded per entry id
MaxSends == 2
\* process restarts over a behaviour
MaxRestarts == 1
\* failed writes of config.json over a behaviour
MaxWriteFailures == 1
NumUsers == 2

(***************************************************************************)
(* Program constants.                                                      *)
(***************************************************************************)
\* largest setTimeout delay, 2^31 - 1 ms, in whole minutes
TimeoutMaxMinutes == 35791
MinutesPerDay == 1440

(***************************************************************************)
(* Calendar arithmetic of the JavaScript Date object (UTC methods).        *)
(***************************************************************************)
\* the time value 0 of a Date is 1970-01-01T00:00Z, a Thursday (getUTCDay() = 4)
EpochYear == 1970
EpochWeekday == 4

JsMod(a, b) == IF a >= 0 THEN a % b ELSE -((-a) % b)

Trunc2(x2) == IF x2 >= 0 THEN x2 \div 2 ELSE -((-x2) \div 2)

IsLeap(y) == (y % 4 = 0 /\ y % 100 # 0) \/ y % 400 = 0

DaysInYear(y) == IF IsLeap(y) THEN 366 ELSE 365

DaysInMonth(y, m) ==
  IF m = 1 THEN (IF IsLeap(y) THEN 29 ELSE 28)
  ELSE IF m \in {3, 5, 8, 10} THEN 30 ELSE 31

\* DayFromYear(y) of ECMA-262: the day number of January 1st of year y
DaysBeforeYear(y) ==
  365 * (y - EpochYear) + ((y - 1969) \div 4) - ((y - 1901) \div 100)
    + ((y - 1601) \div 400)

RECURSIVE DaysBeforeMonth(_, _)
DaysBeforeMonth(y, m) ==
  IF m = 0 THEN 0 ELSE DaysBeforeMonth(y, m - 1) + DaysInMonth(y, m - 1)

\* MakeDay(year, month, date): month and date may lie outside their ranges
MakeDay(y, m, d) ==
  LET yy == y + (m \div 12)
      mm == m % 12
  IN  DaysBeforeYear(yy) + DaysBeforeMonth(yy, mm) + d - 1

DayOf(t) == t \div MinutesPerDay

MinuteOfDay(t) == t % MinutesPerDay

RECURSIVE YearOfDay(_, _)
YearOfDay(n, y) ==
  IF n < DaysBeforeYear(y) THEN YearOfDay(n, y - 1)
  ELSE IF n >= DaysBeforeYear(y + 1) THEN YearOfDay(n, y + 1)
  ELSE y

RECURSIVE MonthOfDay(_, _, _)
MonthOfDay(n, y, m) ==
  IF n >= DaysBeforeYear(y) + DaysBeforeMonth(y, m) + DaysInMonth(y, m)
  THEN MonthOfDay(n, y, m + 1)
  ELSE m

GetUTCFullYear(t) == YearOfDay(DayOf(t), EpochYear + (DayOf(t) \div 366))

GetUTCMonth(t) == MonthOfDay(DayOf(t), GetUTCFullYear(t), 0)

GetUTCDate(t) ==
  LET y == GetUTCFullYear(t)
  IN  DayOf(t) - DaysBeforeYear(y) - DaysBeforeMonth(y, GetUTCMonth(t)) + 1

GetUTCDay(t) == (DayOf(t) + EpochWeekday) % 7

GetUTCHours(t) == MinuteOfDay(t) \div 60

GetUTCMinutes(t) == MinuteOfDay(t) % 60

\* setUTCHours(h, min, 0, 0): the hour argument goes through ToIntegerOrInfinity
SetUTCHours(t, h2, min) == DayOf(t) * MinutesPerDay + Trunc2(h2) * 60 + min

SetUTCDate(t, d) ==
  MakeDay(GetUTCFullYear(t), GetUTCMonth(t), d) * MinutesPerDay + MinuteOfDay(t)

SetUTCMonth(t, m) ==
  MakeDay(GetUTCFullYear(t), m, GetUTCDate(t)) * MinutesPerDay + MinuteOfDay(t)

(***************************************************************************)
(* calculateNextExecution.  A schedule is                                  *)
(*   [type, hours, minutes, off2, dayOfWeek, dayOfMonth]                   *)
(* where hours:minutes is schedule.time ("HH:MM") and off2 is twice        *)
(* schedule.timezoneOffset.  The result is null or a number of minutes.    *)
(***************************************************************************)
Null == [isNull |-> TRUE, delay |-> 0]

Delay(d) == [isNull |-> FALSE, delay |-> d]

\* utcHours = (hours - timezoneOffsetHours + 24) % 24, in half-hours
UtcHours2(schedule) == JsMod(2 * schedule.hours - schedule.off2 + 48, 48)

NextOnce(schedule, now) ==
  LET nextExecution == SetUTCHours(now, UtcHours2(schedule), schedule.minutes)
  IN  IF nextExecution <= now THEN Null ELSE Delay(nextExecution - now)

NextDaily(schedule, now) ==
  LET n0 == SetUTCHours(now, UtcHours2(schedule), schedule.minutes)
      nextExecution == IF n0 <= now THEN SetUTCDate(n0, GetUTCDate(n0) + 1) ELSE n0
  IN  Delay(nextExecution - now)

NextWeekly(schedule, now) ==
  LET currentDay == GetUTCDay(now)
      d0 == schedule.dayOfWeek - currentDay
      \* now.getUTCHours() * 60 + now.getUTCMinutes() >= utcHours * 60 + minutes
      passed == 2 * (GetUTCHours(now) * 60 + GetUTCMinutes(now))
                  >= UtcHours2(schedule) * 60 + 2 * schedule.minutes
      daysUntilNext == IF d0 < 0 \/ (d0 = 0 /\ passed) THEN d0 + 7 ELSE d0
      n1 == SetUTCDate(now, GetUTCDate(now) + daysUntilNext)
      nextExecution == SetUTCHours(n1, UtcHours2(schedule), schedule.minutes)
  IN  Delay(nextExecution - now)

NextMonthly(schedule, now) ==
  LET n0 == SetUTCHours(now, UtcHours2(schedule), schedule.minutes)
      n1 == SetUTCDate(n0, schedule.dayOfMonth)
      nextExecution == IF n1 <= now THEN SetUTCMonth(n1, GetUTCMonth(n1) + 1) ELSE n1
  IN  Delay(nextExecution - now)

CalculateNextExecution(schedule, now) ==
  CASE schedule.type = "once"    -> NextOnce(schedule, now)
    [] schedule.type = "daily"   -> NextDaily(schedule, now)
    [] schedule.type = "weekly"  -> NextWeekly(schedule, now)
    [] schedule.type = "monthly" -> NextMonthly(schedule, now)
    [] OTHER                     -> Null

\* calculateNextExecution finds the time of a once schedule elapsed
ElapsedOnce(messageConfig, t) ==
  /\ messageConfig.schedule.type = "once"
  /\ CalculateNextExecution(messageConfig.schedule, t).isNull

\* scheduleMessage refuses a delay with  !delay || delay < 0
Armable(res) == ~res.isNull /\ res.delay > 0

(***************************************************************************)
(* State.                                                                  *)
(***************************************************************************)
VARIABLES
  now,                \* the clock (Date.now()), whole minutes
  phase,              \* "connecting" | "registering" | "ready": position of clientReady
  botClient,          \* storage.js botClient is set
  scheduledMessages,  \* storage.js scheduledMessages: guildId -> list of entries
  welcomeConfigs,     \* storage.js welcomeConfigs: guildId -> welcome configuration
  userLevels,         \* storage.js userLevels: guildId-userId -> [xp, level]
  file,               \* config.json: [exists, scheduledMessages, welcomeConfigs, userLevels]
  activeTimers,       \* scheduledMessages.js activeTimers: id -> timer handle
  timers,             \* pending timeouts of the runtime: [h, cfg, due]
  fires,              \* executeScheduledMessage calls awaiting channel.send: [h, cfg]
  resets,             \* guilds whose resetGuildConfig is suspended before the deletion
  created,            \* number of schedule-message commands accepted
  commands,           \* number of administrative commands accepted
  restarts,           \* number of process restarts
  writeFailures,      \* number of failed writes of config.json
  sends,              \* history: id -> number of channel.send invocations
  cancelled,          \* history: ids cancelled by remove-scheduled or by a reset
  wiped,              \* history: ids deleted from the Store by resetGuildConfig
  freshlyReset,       \* history: ids created and reset at once, nothing in between
  elapsed,            \* history: once entries scheduleMessage found already elapsed
  xpAdded,            \* history: guildId-userId -> sum of the amounts addUserXP added
                      \* since a reset last deleted the levels of the guild
  calcSchedule,       \* the schedule a calculateNextExecution call is given
  calcResult,         \* what that call returned
  ev                  \* history: the last step taken

vars == <<now, phase, botClient, scheduledMessages, file, activeTimers, timers,
          fires, resets, created, commands, restarts, writeFailures, sends, cancelled,
          wiped, freshlyReset, elapsed, calcSchedule, calcResult, welcomeConfigs,
          userLevels, xpAdded, ev>>

Guilds == 1..NumGuilds

\* the name option of schedule-message, and the names remove-scheduled is given
Names == {"news"}

RemoveNames == Names \cup {"rules"}

\* stands for "no entry" and "no guild" in the record of a step
NoId == <<>>

Event(op, g, id, res) == [op |-> op, g |-> g, id |-> id, res |-> res]

\* the record of a command: reply is what interaction.editReply shows
CommandEvent(op, g, id, res, reply) ==
  [op |-> op, g |-> g, id |-> id, res |-> res, reply |-> reply]

\* the record of a step of executeScheduledMessage
FireEvent(op, messageConfig, res) ==
  [op |-> op, g |-> messageConfig.guildId, id |-> messageConfig.id, res |-> res,
   recurring |-> messageConfig.recurring]

\* 2024-01-31T00:00Z, a Wednesday
StartNow == MakeDay(2024, 0, 31) * MinutesPerDay

\* how far a clock advance goes when no timer is due earlier
TickMinutes == MinutesPerDay \div 2

Schedule(type, hours, minutes, off2, dayOfWeek, dayOfMonth) ==
  [type |-> type, hours |-> hours, minutes |-> minutes, off2 |-> off2,
   dayOfWeek |-> dayOfWeek, dayOfMonth |-> dayOfMonth]

\* the schedules the schedule-message command is given in this model
ScheduleChoices ==
  { Schedule("once", 12, 0, 0, 0, 0),
    Schedule("daily", 18, 0, 12, 0, 0),
    Schedule("monthly", 12, 0, 0, 0, 31) }

\* an entry as schedule-message builds it
MessageConfig(id, name, g, schedule, enabled) ==
  [id |-> id, name |-> name, guildId |-> g, schedule |-> schedule,
   recurring |-> (schedule.type # "once"), enabled |-> enabled]

(***************************************************************************)
(* The Store (storage.js).                                                 *)
(***************************************************************************)
EmptyStore == [g \in {} |-> <<>>]

\* scheduledMessages.get(guildId) || []
GuildList(sm, g) == IF g \in DOMAIN sm THEN sm[g] ELSE <<>>

MapSet(sm, g, list) == [x \in (DOMAIN sm) \cup {g} |-> IF x = g THEN list ELSE sm[x]]

MapDelete(sm, g) == [x \in (DOMAIN sm) \ {g} |-> sm[x]]

\* current.findIndex((m) => m.id === message.id)
FindIndex(list, id) ==
  IF \E i \in 1..Len(list) : list[i].id = id
  THEN CHOOSE i \in 1..Len(list) :
         list[i].id = id /\ \A j \in 1..(i - 1) : list[j].id # id
  ELSE 0

\* a faulty saveScheduledMessage: the message is pushed without looking for
\* an entry with its id
SaveScheduledMessagePush(sm, g, message) ==
  MapSet(sm, g, Append(GuildList(sm, g), message))

\* the in-memory part of saveScheduledMessage
SaveScheduledMessage(sm, g, message) ==
  LET current == GuildList(sm, g)
      index == FindIndex(current, message.id)
  IN  MapSet(sm, g, IF index >= 1 THEN [current EXCEPT ![index] = message]
                    ELSE Append(current, message))

RemoveFiltered(list, id) ==
  LET Keep(m) == m.id # id IN SelectSeq(list, Keep)

\* a faulty removeScheduledMessage: the filtered list is stored and saved
\* without comparing its length with the list's
RemoveScheduledMessageAlways(sm, g, id) ==
  [sm |-> MapSet(sm, g, RemoveFiltered(GuildList(sm, g), id)), changed |-> TRUE]

\* a faulty removeScheduledMessage: the whole list of the guild is dropped
RemoveGuildMessages(sm, g, id) == [sm |-> MapSet(sm, g, <<>>), changed |-> TRUE]

\* removeScheduledMessage: [sm, changed]; the file is written only when changed
RemoveScheduledMessage(sm, g, id) ==
  LET current == GuildList(sm, g)
      filtered == RemoveFiltered(current, id)
  IN  IF Len(filtered) < Len(current)
      THEN [sm |-> MapSet(sm, g, filtered), changed |-> TRUE]
      ELSE [sm |-> sm, changed |-> FALSE]

\* a faulty serialisation: the entries are written without the
\* timezoneOffset of their schedule (read back as 0)
ArrayFromEntriesNoOffset(sm) ==
  {<<g, [i \in 1..Len(sm[g]) |-> [sm[g][i] EXCEPT !.schedule.off2 = 0]]>> :
     g \in DOMAIN sm}

\* Array.from(scheduledMessages.entries()): the [guildId, list] pairs that
\* JSON.stringify writes under the key scheduledMessages
ArrayFromEntries(sm) == {<<g, sm[g]>> : g \in DOMAIN sm}

\* new Map(data.scheduledMessages) over the pairs JSON.parse read
NewMap(entries) ==
  [g \in {e[1] : e \in entries} |-> (CHOOSE e \in entries : e[1] = g)[2]]

\* saveToFile: every write strategy failing is caught and logged, never rethrown
SaveToFile(f, sm, wc, ul, writeOk) ==
  IF writeOk THEN [exists |-> TRUE,
                   scheduledMessages |-> ArrayFromEntries(sm),
                   welcomeConfigs |-> ArrayFromEntries(wc),
                   userLevels |-> ArrayFromEntries(ul)]
  ELSE f

\* the disk either takes the write or refuses it
WriteOutcome(writeOk) ==
  /\ writeOk \/ writeFailures < MaxWriteFailures
  /\ writeFailures' = IF writeOk THEN writeFailures ELSE writeFailures + 1

NoWrite(writeOk) == writeOk /\ UNCHANGED writeFailures

\* loadAllConfigs into the freshly constructed (empty) maps
LoadAllConfigs(f) == IF f.exists THEN NewMap(f.scheduledMessages) ELSE EmptyStore

\* loadAllConfigs: welcomeConfigs = new Map(data.welcomeConfigs)
LoadWelcomeConfigs(f) == IF f.exists THEN NewMap(f.welcomeConfigs) ELSE EmptyStore

\* loadAllConfigs: userLevels = new Map(data.userLevels)
LoadUserLevels(f) == IF f.exists THEN NewMap(f.userLevels) ELSE EmptyStore

\* the value a getter gives: <<v>>, or <<>> for null
Some(v) == <<v>>

\* getWelcomeConfig: welcomeConfigs.get(guildId) || null
GetWelcomeConfig(wc, g) == IF g \in DOMAIN wc THEN Some(wc[g]) ELSE <<>>

\* a faulty removeWelcomeConfig: true is returned without the result of
\* welcomeConfigs.delete
RemoveWelcomeAlways(wc, g) == [wc |-> MapDelete(wc, g), result |-> TRUE]

\* removeWelcomeConfig, in memory: result = welcomeConfigs.delete(guildId)
RemoveWelcome(wc, g) == [wc |-> MapDelete(wc, g), result |-> g \in DOMAIN wc]

\* `${guildId}-${userId}`
UserKey(g, u) == <<g, u>>

\* getUserLevel: userLevels.get(key) || { xp: 0, level: 0 }
GetUserLevel(ul, g, u) ==
  IF UserKey(g, u) \in DOMAIN ul THEN ul[UserKey(g, u)] ELSE [xp |-> 0, level |-> 0]

\* a faulty addUserXP: the amount is added to a fresh { xp: 0, level: 0 }
AddUserXPFresh(ul, g, u, xpAmount) ==
  [ul |-> MapSet(ul, UserKey(g, u), [xp |-> xpAmount, level |-> 0]),
   total |-> xpAmount]

\* addUserXP, in memory: current.xp += xpAmount; userLevels.set(key, current);
\* current.xp is returned
AddUserXP(ul, g, u, xpAmount) ==
  LET current == GetUserLevel(ul, g, u)
      updated == [current EXCEPT !.xp = @ + xpAmount]
  IN  [ul |-> MapSet(ul, UserKey(g, u), updated), total |-> updated.xp]

\* resetGuildConfig: userLevels.delete(key) for every key that starts with
\* `${guildId}-`
DeleteGuildLevels(ul, g) == [k \in {x \in DOMAIN ul : x[1] # g} |-> ul[k]]

RangeOf(list) == {list[i] : i \in 1..Len(list)}

StoredEntries(sm) == UNION {RangeOf(sm[g]) : g \in DOMAIN sm}

StoredIds(sm) == {m.id : m \in StoredEntries(sm)}

(***************************************************************************)
(* The Timer Registry (activeTimers) and the runtime's pending timeouts.   *)
(* A registry state is [at, tm]: at is activeTimers, tm the pending        *)
(* timeouts.  A handle in at that is no longer in tm has expired or was    *)
(* cleared.                                                                *)
(***************************************************************************)
NoTimers == [id \in {} |-> 0]

Registry(at, tm) == [at |-> at, tm |-> tm]

ClearTimeout(tm, h) == {t \in tm : t.h # h}

MapRemove(at, ids) == [id \in (DOMAIN at) \ ids |-> at[id]]

HandlesInUse(at, tm, fr) ==
  {t.h : t \in tm} \cup {at[id] : id \in DOMAIN at} \cup {f.h : f \in fr}

\* the handle of a new Timeout object: one that nothing refers to
NewHandle(at, tm, fr) ==
  LET used == HandlesInUse(at, tm, fr)
  IN  CHOOSE h \in 1..(Cardinality(used) + 1) :
        h \notin used /\ \A k \in 1..(h - 1) : k \in used

\* setTimeout(cb, delay): a delay above 2^31 - 1 ms is replaced by 1 ms
SetTimeoutDelay(d) == IF d > TimeoutMaxMinutes THEN 0 ELSE d

\* a faulty scheduleMessage: the timer already registered for the id is not
\* cleared before the new one is set
ScheduleMessageNoClear(st, messageConfig, t, fr) ==
  LET id == messageConfig.id
      res == CalculateNextExecution(messageConfig.schedule, t)
      h == NewHandle(st.at, st.tm, fr)
      timer == [h |-> h, cfg |-> messageConfig, due |-> t + SetTimeoutDelay(res.delay)]
  IN  IF ~Armable(res) THEN st
      ELSE Registry([x \in (DOMAIN st.at) \cup {id} |-> IF x = id THEN h ELSE st.at[x]],
                    st.tm \cup {timer})

\* scheduleMessage(client, messageConfig) at clock reading t
ScheduleMessage(st, messageConfig, t, fr) ==
  LET id == messageConfig.id
      tm1 == IF id \in DOMAIN st.at THEN ClearTimeout(st.tm, st.at[id]) ELSE st.tm
      res == CalculateNextExecution(messageConfig.schedule, t)
      h == NewHandle(MapRemove(st.at, {id}), tm1, fr)
      timer == [h |-> h, cfg |-> messageConfig, due |-> t + SetTimeoutDelay(res.delay)]
  IN  IF ~Armable(res) THEN Registry(st.at, tm1)
      ELSE Registry([x \in (DOMAIN st.at) \cup {id} |-> IF x = id THEN h ELSE st.at[x]],
                    tm1 \cup {timer})

\* cancelScheduledMessage(messageId): [at, tm, found]
CancelScheduledMessage(st, id) ==
  IF id \in DOMAIN st.at
  THEN [at |-> MapRemove(st.at, {id}), tm |-> ClearTimeout(st.tm, st.at[id]),
        found |-> TRUE]
  ELSE [at |-> st.at, tm |-> st.tm, found |-> FALSE]

\* a faulty guildConfigReset listener: every timer of the registry is
\* cleared, as cancelAllScheduledMessages does
CancelEveryMessage(st, guildMessages) == Registry(NoTimers, {})

\* the guildConfigReset listener of setupScheduledMessages
RECURSIVE CancelGuildMessages(_, _)
CancelGuildMessages(st, guildMessages) ==
  IF guildMessages = <<>> THEN st
  ELSE LET message == Head(guildMessages)
           id == message.id
           st1 == IF id \in DOMAIN st.at
                  THEN Registry(MapRemove(st.at, {id}), ClearTimeout(st.tm, st.at[id]))
                  ELSE st
       IN  CancelGuildMessages(st1, Tail(guildMessages))

\* a faulty loop of setupScheduledMessages: the enabled flag is not looked at
RECURSIVE ScheduleEvery(_, _, _, _)
ScheduleEvery(st, messages, t, fr) ==
  IF messages = <<>> THEN st
  ELSE ScheduleEvery(ScheduleMessage(st, Head(messages), t, fr), Tail(messages), t, fr)

\* the loop of setupScheduledMessages over one guild's list
RECURSIVE ScheduleEnabled(_, _, _, _)
ScheduleEnabled(st, messages, t, fr) ==
  IF messages = <<>> THEN st
  ELSE LET message == Head(messages)
       IN  ScheduleEnabled(
             IF message.enabled THEN ScheduleMessage(st, message, t, fr) ELSE st,
             Tail(messages), t, fr)

\* the loop of setupScheduledMessages over the guilds of the Store
RECURSIVE ScheduleAllGuilds(_, _, _, _, _)
ScheduleAllGuilds(st, sm, todo, t, fr) ==
  IF todo = {} THEN st
  ELSE LET g == CHOOSE x \in todo : \A y \in todo : x <= y
       IN  ScheduleAllGuilds(ScheduleEnabled(st, sm[g], t, fr), sm, todo \ {g}, t, fr)

PendingIds(tm) == {t.cfg.id : t \in tm}

(***************************************************************************)
(* Initial state: the process has been constructed and is connecting.      *)
(* config.json holds what an earlier run (or an importConfigs call) left:  *)
(* one disabled weekly entry of guild 1.                                   *)
(***************************************************************************)
DisabledEntry ==
  MessageConfig(<<1, 0>>, "rules", 1, Schedule("weekly", 12, 0, 0, 3, 0), FALSE)

InitFile ==
  [exists |-> TRUE,
   scheduledMessages |-> ArrayFromEntries(MapSet(EmptyStore, 1, <<DisabledEntry>>)),
   welcomeConfigs |-> {},
   userLevels |-> {}]

Constructed ==
  /\ phase = "connecting"
  /\ botClient = FALSE
  /\ scheduledMessages = EmptyStore
  /\ welcomeConfigs = EmptyStore
  /\ userLevels = EmptyStore
  /\ xpAdded = EmptyStore
  /\ file = InitFile
  /\ activeTimers = NoTimers
  /\ timers = {}
  /\ fires = {}
  /\ resets = {}
  /\ created = 0
  /\ commands = 0
  /\ restarts = 0
  /\ writeFailures = 0
  /\ sends = [id \in StoredIds(LoadAllConfigs(file)) |-> 0]
  /\ cancelled = {}
  /\ wiped = {}
  /\ freshlyReset = {}
  /\ elapsed = {}
  /\ calcResult = <<>>
  /\ ev = Event("init", NoId, NoId, "")

Init ==
  /\ now = StartNow
  /\ calcSchedule = NoId
  /\ Constructed

Running == phase \in {"registering", "ready"}

(***************************************************************************)
(* clientReady handler (index.js): loadAllConfigs(); setBotClient(client); *)
(* then it suspends at  await registerCommands(client).                    *)
(***************************************************************************)
ClientReady ==
  /\ phase = "connecting"
  /\ scheduledMessages' = LoadAllConfigs(file)
  /\ welcomeConfigs' = LoadWelcomeConfigs(file)
  /\ userLevels' = LoadUserLevels(file)
  /\ botClient' = TRUE
  /\ phase' = "registering"
  /\ ev' = Event("clientReady", NoId, NoId, "")
  /\ UNCHANGED <<now, file, activeTimers, timers, fires, resets, created, commands,
                 restarts, writeFailures, sends, cancelled, wiped,
                 freshlyReset, elapsed, calcSchedule, calcResult, xpAdded>>

(***************************************************************************)
(* The rest of the clientReady handler: setupScheduledMessages(client)     *)
(* arms every enabled entry of the Store and registers the scheduleAdded   *)
(* and guildConfigReset listeners.                                         *)
(***************************************************************************)
SetupScheduledMessages ==
  /\ phase = "registering"
  /\ LET st == ScheduleAllGuilds(Registry(activeTimers, timers), scheduledMessages,
                                 DOMAIN scheduledMessages, now, fires)
     IN  /\ activeTimers' = st.at
         /\ timers' = st.tm
  /\ elapsed' = elapsed \cup
                  {m.id : m \in {x \in StoredEntries(scheduledMessages) :
                                   x.enabled /\ ElapsedOnce(x, now)}}
  /\ phase' = "ready"
  /\ ev' = Event("setup", NoId, NoId, "")
  /\ UNCHANGED <<now, botClient, scheduledMessages, file, fires, resets, created, commands,
                 restarts, writeFailures, sends, cancelled, wiped,
                 freshlyReset, calcSchedule, calcResult, welcomeConfigs,
                 userLevels, xpAdded>>

(***************************************************************************)
(* The process stops (crash, or gracefulShutdown: cancelAllScheduled-      *)
(* Messages then exit) and is started again: only config.json survives.    *)
(***************************************************************************)
Restart ==
  /\ Running
  /\ restarts < MaxRestarts
  /\ restarts' = restarts + 1
  /\ phase' = "connecting"
  /\ botClient' = FALSE
  /\ scheduledMessages' = EmptyStore
  /\ welcomeConfigs' = EmptyStore
  /\ userLevels' = EmptyStore
  /\ activeTimers' = NoTimers
  /\ timers' = {}
  /\ fires' = {}
  /\ resets' = {}
  /\ ev' = Event("restart", NoId, NoId, "")
  /\ UNCHANGED <<now, file, created, commands, writeFailures, sends, cancelled, wiped,
                 freshlyReset, elapsed, calcSchedule, calcResult, xpAdded>>

\* the reply of schedule-message: the "Scheduled Message Created" embed,
\* whatever saveScheduledMessage and the scheduleAdded listener did
CreateReply(messageConfig) == "created"

\* the reply of remove-scheduled for an entry it found: "Scheduled Message
\* Removed", with the status line of the timer
RemoveReply(timerCancelled) ==
  IF timerCancelled THEN "removedTimerCleared" ELSE "removedNoTimer"

(***************************************************************************)
(* schedule-message command (execute): builds the entry with               *)
(* id = guildId-Date.now(), saveScheduledMessage, emit scheduleAdded.      *)
(* sameMs: Date.now() reads the millisecond the previous command read.     *)
(***************************************************************************)
ScheduleMessageCommand(g, name, schedule, sameMs, writeOk) ==
  /\ Running
  /\ created < MaxCreates
  /\ commands < MaxCommands
  /\ sameMs => ev.op = "create"
  /\ WriteOutcome(writeOk)
  /\ LET stamp == IF sameMs THEN ev.id[2] ELSE created + 1
         id == <<g, stamp>>
         messageConfig == MessageConfig(id, name, g, schedule, TRUE)
         sm == SaveScheduledMessage(scheduledMessages, g, messageConfig)
         \* the scheduleAdded listener exists once setupScheduledMessages has run
         st == IF phase = "ready"
               THEN ScheduleMessage(Registry(activeTimers, timers), messageConfig,
                                    now, fires)
               ELSE Registry(activeTimers, timers)
     IN  /\ scheduledMessages' = sm
         /\ file' = SaveToFile(file, sm, welcomeConfigs, userLevels, writeOk)
         /\ activeTimers' = st.at
         /\ timers' = st.tm
         /\ sends' = IF id \in DOMAIN sends THEN sends
                     ELSE [x \in (DOMAIN sends) \cup {id} |->
                             IF x = id THEN 0 ELSE sends[x]]
         /\ cancelled' = cancelled \ {id}
         /\ wiped' = wiped \ {id}
         /\ elapsed' = IF phase = "ready" /\ ElapsedOnce(messageConfig, now)
                        THEN elapsed \cup {id} ELSE elapsed \ {id}
         /\ ev' = CommandEvent("create", g, id,
                               IF writeOk THEN "saved" ELSE "writeFailed",
                               CreateReply(messageConfig))
  /\ created' = created + 1
  /\ commands' = commands + 1
  /\ UNCHANGED <<now, phase, botClient, fires, resets, restarts, freshlyReset,
                 calcSchedule, calcResult, welcomeConfigs,
                 userLevels, xpAdded>>

(***************************************************************************)
(* remove-scheduled command (execute): the first entry of the guild with   *)
(* the given name; cancelScheduledMessage, then removeScheduledMessage.    *)
(***************************************************************************)
\* a faulty lookup: the last entry with the name instead of the first
FindLastByName(list, name) ==
  IF \E i \in 1..Len(list) : list[i].name = name
  THEN CHOOSE i \in 1..Len(list) :
         list[i].name = name /\ \A j \in (i + 1)..Len(list) : list[j].name # name
  ELSE 0

\* guildMessages.find((msg) => msg.name === messageName)
FindByName(list, name) ==
  IF \E i \in 1..Len(list) : list[i].name = name
  THEN CHOOSE i \in 1..Len(list) :
         list[i].name = name /\ \A j \in 1..(i - 1) : list[j].name # name
  ELSE 0

RemoveScheduledCommand(g, name, writeOk) ==
  /\ Running
  /\ commands < MaxCommands
  /\ commands' = commands + 1
  /\ LET guildMessages == GuildList(scheduledMessages, g)
         i == FindByName(guildMessages, name)
     IN  IF i = 0
         THEN /\ NoWrite(writeOk)
              /\ ev' = CommandEvent("remove", g, NoId, "notFound", "notFound")
              /\ UNCHANGED <<scheduledMessages, file, activeTimers, timers, cancelled>>
         ELSE LET messageToRemove == guildMessages[i]
                  c == CancelScheduledMessage(Registry(activeTimers, timers),
                                              messageToRemove.id)
                  r == RemoveScheduledMessage(scheduledMessages, g, messageToRemove.id)
              IN  /\ IF r.changed THEN WriteOutcome(writeOk) ELSE NoWrite(writeOk)
                  /\ activeTimers' = c.at
                  /\ timers' = c.tm
                  /\ scheduledMessages' = r.sm
                  /\ file' = IF r.changed THEN SaveToFile(file, r.sm, welcomeConfigs, userLevels,
                                                        writeOk) ELSE file
                  /\ cancelled' = cancelled \cup {messageToRemove.id}
                  /\ ev' = CommandEvent("remove", g, messageToRemove.id,
                                        IF c.found THEN "timerCleared" ELSE "noTimer",
                                        RemoveReply(c.found))
  /\ UNCHANGED <<now, phase, botClient, fires, resets, created, restarts, sends, wiped,
                 freshlyReset, elapsed, calcSchedule, calcResult, welcomeConfigs,
                 userLevels, xpAdded>>

(***************************************************************************)
(* resetGuildConfig(guildId) (storage.js), called by the reset command.    *)
(* With botClient set it emits guildConfigReset (the listener, once        *)
(* registered, clears the timers of the guild's stored entries) and then   *)
(* suspends: 500 ms, then the fetches of the panel messages.  The deletion *)
(* and saveToFile() follow when it resumes.                                *)
(***************************************************************************)
IdsOf(list) == {m.id : m \in RangeOf(list)}

ResetStart(g) ==
  /\ Running
  /\ commands < MaxCommands
  /\ commands' = commands + 1
  /\ g \notin resets
  /\ botClient
  /\ LET guildMessages == GuildList(scheduledMessages, g)
         listening == phase = "ready"
         st == IF listening
               THEN CancelGuildMessages(Registry(activeTimers, timers), guildMessages)
               ELSE Registry(activeTimers, timers)
     IN  /\ activeTimers' = st.at
         /\ timers' = st.tm
         /\ cancelled' = IF listening THEN cancelled \cup IdsOf(guildMessages)
                         ELSE cancelled
  /\ resets' = resets \cup {g}
  /\ ev' = Event("resetStart", g,
                 IF ev.op = "create" /\ ev.g = g THEN ev.id ELSE NoId, "")
  /\ UNCHANGED <<now, phase, botClient, scheduledMessages, file, fires, created,
                 restarts, writeFailures, sends, wiped,
                 freshlyReset, elapsed, calcSchedule, calcResult, welcomeConfigs,
                 userLevels, xpAdded>>

ResetEnd(g, writeOk) ==
  /\ g \in resets
  /\ resets' = resets \ {g}
  /\ WriteOutcome(writeOk)
  /\ LET hadScheduledMessages == g \in DOMAIN scheduledMessages
         gone == IdsOf(GuildList(scheduledMessages, g))
         sm == MapDelete(scheduledMessages, g)
         wc == MapDelete(welcomeConfigs, g)
         ul == DeleteGuildLevels(userLevels, g)
     IN  /\ scheduledMessages' = sm
         /\ welcomeConfigs' = wc
         /\ userLevels' = ul
         /\ xpAdded' = DeleteGuildLevels(xpAdded, g)
         /\ file' = SaveToFile(file, sm, wc, ul, writeOk)
         /\ wiped' = wiped \cup gone
         /\ freshlyReset' = IF ev.op = "resetStart" /\ ev.g = g /\ ev.id # NoId
                             THEN freshlyReset \cup {ev.id} ELSE freshlyReset
         /\ cancelled' = cancelled \cup gone
         /\ ev' = Event("resetReturn", g,
                        IF ev.op = "resetStart" /\ ev.g = g THEN ev.id ELSE NoId,
                        IF hadScheduledMessages THEN "removed" ELSE "none")
  /\ UNCHANGED <<now, phase, botClient, activeTimers, timers, fires, created, commands,
                 restarts, sends, elapsed, calcSchedule, calcResult>>

(***************************************************************************)
(* A pending timeout expires: executeScheduledMessage runs up to           *)
(* await channel.send(messageData), or returns early ("notDelivered") when *)
(* the channel is not in the cache or the send permission is missing.      *)
(***************************************************************************)
FireOutcomes == {"notDelivered", "send"}

TimerExpires(t, outcome) ==
  /\ t \in timers
  /\ t.due <= now
  /\ timers' = timers \ {t}
  /\ IF outcome = "send"
     THEN /\ sends[t.cfg.id] < MaxSends
          /\ sends' = [sends EXCEPT ![t.cfg.id] = @ + 1]
          /\ fires' = fires \cup {[h |-> t.h, cfg |-> t.cfg]}
     ELSE UNCHANGED <<sends, fires>>
  /\ ev' = FireEvent("fire", t.cfg, outcome)
  /\ UNCHANGED <<now, phase, botClient, scheduledMessages, file, activeTimers,
                 resets, created, commands, restarts, writeFailures, cancelled, wiped,
                 freshlyReset, elapsed, calcSchedule, calcResult, welcomeConfigs,
                 userLevels, xpAdded>>

(***************************************************************************)
(* channel.send settles and executeScheduledMessage resumes: after a       *)
(* fulfilled send a recurring entry is re-armed and a once entry removed;  *)
(* a rejected send lands in the catch block, which only logs.              *)
(***************************************************************************)
SendSettles(f, sent, writeOk) ==
  /\ f \in fires
  /\ fires' = fires \ {f}
  /\ LET messageConfig == f.cfg
         id == messageConfig.id
     IN  /\ IF sent /\ messageConfig.recurring
            THEN LET st == ScheduleMessage(Registry(activeTimers, timers),
                                           messageConfig, now, fires \ {f})
                 IN  /\ NoWrite(writeOk)
                     /\ activeTimers' = st.at
                     /\ timers' = st.tm
                     /\ UNCHANGED <<scheduledMessages, file>>
            ELSE IF sent
            THEN LET r == RemoveScheduledMessage(scheduledMessages,
                                                 messageConfig.guildId, id)
                 IN  /\ IF r.changed THEN WriteOutcome(writeOk) ELSE NoWrite(writeOk)
                     /\ scheduledMessages' = r.sm
                     /\ file' = IF r.changed THEN SaveToFile(file, r.sm, welcomeConfigs, userLevels,
                                                        writeOk)
                                ELSE file
                     /\ activeTimers' = MapRemove(activeTimers, {id})
                     /\ UNCHANGED timers
            ELSE /\ NoWrite(writeOk)
                 /\ UNCHANGED <<scheduledMessages, file, activeTimers, timers>>
         /\ ev' = FireEvent("settle", messageConfig,
                            IF sent THEN "sent" ELSE "sendFailed")
  /\ UNCHANGED <<now, phase, botClient, resets, created, commands, restarts, sends,
                 cancelled, wiped,
                 freshlyReset, elapsed, calcSchedule, calcResult, welcomeConfigs,
                 userLevels, xpAdded>>

(***************************************************************************)
(* The clock advances by whole minutes, never past the expiry of a pending *)
(* timeout, and not while a send, a reset or the command registration of   *)
(* startup (each a matter of seconds) is suspended.                        *)
(***************************************************************************)
MinDue(tm) == CHOOSE d \in {t.due : t \in tm} : \A t \in tm : d <= t.due

NextInstant ==
  IF timers # {} /\ MinDue(timers) < now + TickMinutes
  THEN MinDue(timers) ELSE now + TickMinutes

Tick ==
  /\ fires = {}
  /\ resets = {}
  /\ phase # "registering"
  /\ \A t \in timers : t.due > now
  /\ NextInstant <= StartNow + MaxDays * MinutesPerDay
  /\ now' = NextInstant
  /\ ev' = Event("tick", NoId, NoId, "")
  /\ UNCHANGED <<phase, botClient, scheduledMessages, file, activeTimers, timers,
                 fires, resets, created, commands, restarts, writeFailures, sends, cancelled,
                 wiped,
                 freshlyReset, elapsed, calcSchedule, calcResult, welcomeConfigs,
                 userLevels, xpAdded>>

Next ==
  \/ ClientReady
  \/ SetupScheduledMessages
  \/ Restart
  \/ \E g \in Guilds, name \in Names, schedule \in ScheduleChoices,
        sameMs \in BOOLEAN, writeOk \in BOOLEAN :
       ScheduleMessageCommand(g, name, schedule, sameMs, writeOk)
  \/ \E g \in Guilds, name \in RemoveNames, writeOk \in BOOLEAN :
       RemoveScheduledCommand(g, name, writeOk)
  \/ \E g \in Guilds : ResetStart(g)
  \/ \E g \in Guilds, writeOk \in BOOLEAN : ResetEnd(g, writeOk)
  \/ \E t \in timers, outcome \in FireOutcomes : TimerExpires(t, outcome)
  \/ \E f \in fires, sent \in BOOLEAN, writeOk \in BOOLEAN : SendSettles(f, sent, writeOk)
  \/ Tick

Spec == Init /\ [][Next]_vars

(***************************************************************************)
(* calculateNextExecution on its own: one call, with a schedule of the     *)
(* data model (type, HH:MM, timezoneOffset, dayOfWeek, dayOfMonth) at a    *)
(* clock reading.  Offsets are in half-hours: -12, -5, 0, +5.5, +6, +14    *)
(* hours, and +40 and +50 hours, which the timezone-offset option (an      *)
(* integer without minimum or maximum) accepts.                            *)
(***************************************************************************)
At(y, m, d, h, min) == MakeDay(y, m, d) * MinutesPerDay + h * 60 + min

CalcHours == {0, 9, 10, 14, 23}

CalcMinutes == {0, 30, 59}

CalcOffsets2 == {-24, -10, 0, 11, 12, 28, 80, 100}

CalcDaysOfWeek == 0..6

CalcDaysOfMonth == {1, 15, 29, 30, 31}

CalcSchedules ==
  {Schedule(type, h, min, o2, 0, 0) :
     type \in {"once", "daily"}, h \in CalcHours, min \in CalcMinutes,
     o2 \in CalcOffsets2}
  \cup
  {Schedule("weekly", h, min, o2, dow, 0) :
     h \in CalcHours, min \in CalcMinutes, o2 \in CalcOffsets2,
     dow \in CalcDaysOfWeek}
  \cup
  {Schedule("monthly", h, min, o2, 0, dom) :
     h \in CalcHours, min \in CalcMinutes, o2 \in CalcOffsets2,
     dom \in CalcDaysOfMonth}

\* Wed 2024-01-31 00:00, 04:15, 06:00, 12:00; Mon 2024-01-29 00:00;
\* Fri 2023-02-10 15:00; Thu 2024-02-29 23:59; Sun 2023-12-31 23:30
CalcNows ==
  { StartNow, At(2024, 0, 31, 4, 15), At(2024, 0, 31, 6, 0), At(2024, 0, 31, 12, 0),
    At(2024, 0, 29, 0, 0), At(2023, 1, 10, 15, 0), At(2024, 1, 29, 23, 59),
    At(2023, 11, 31, 23, 30) }

InitCalc ==
  /\ now \in CalcNows
  /\ calcSchedule \in CalcSchedules
  /\ Constructed

Calculate ==
  /\ calcResult = <<>>
  /\ calcResult' = <<CalculateNextExecution(calcSchedule, now)>>
  /\ ev' = Event("calculate", NoId, NoId, "")
  /\ UNCHANGED <<now, phase, botClient, scheduledMessages, file, activeTimers, timers,
                 fires, resets, created, commands, restarts, writeFailures, sends,
                 cancelled, wiped, freshlyReset, elapsed, calcSchedule, welcomeConfigs,
                 userLevels, xpAdded>>

NextCalc == Calculate

SpecCalc == InitCalc /\ [][NextCalc]_vars

(***************************************************************************)
(* One run of the process, without restart, removal or reset, in which     *)
(* schedule-message is also given a timezone-offset above 24: the option   *)
(* is an integer without minimum or maximum.  10:00 at offset +50 gives    *)
(* utcHours = (10 - 50 + 24) % 24 = -16.                                   *)
(***************************************************************************)
OffsetScheduleChoices ==
  ScheduleChoices \cup {Schedule("daily", 10, 0, 100, 0, 0)}

NextOffsets ==
  \/ ClientReady
  \/ SetupScheduledMessages
  \/ \E g \in Guilds, name \in Names, schedule \in OffsetScheduleChoices,
        sameMs \in BOOLEAN, writeOk \in BOOLEAN :
       ScheduleMessageCommand(g, name, schedule, sameMs, writeOk)
  \/ \E t \in timers, outcome \in FireOutcomes : TimerExpires(t, outcome)
  \/ \E f \in fires, sent \in BOOLEAN, writeOk \in BOOLEAN : SendSettles(f, sent, writeOk)
  \/ Tick

SpecOffsets == Init /\ [][NextOffsets]_vars

(***************************************************************************)
(* One run of the process within the first hours after its start, before  *)
(* any timer is due, in which the welcome configurations and the user      *)
(* levels of the Store are used next to the scheduled messages:            *)
(* saveWelcomeConfig, removeWelcomeConfig, addUserXP, the commands on      *)
(* scheduled messages and resetGuildConfig.                                *)
(***************************************************************************)
Users == 1..NumUsers

\* welcome configurations as setup-welcome builds them
WelcomeChoices ==
  {[channelId |-> "general", message |-> "hello", enabled |-> TRUE],
   [channelId |-> "lobby", message |-> "welcome", enabled |-> TRUE]}

\* xpMin and xpMax of the leveling handler, the bounds of xpGained
XpAmounts == {15, 25}

StoreEvent(op, g, arg, res) ==
  [op |-> op, g |-> g, id |-> NoId, res |-> res, arg |-> arg]

\* saveWelcomeConfig(guildId, config)
SaveWelcomeConfig(g, config, writeOk) ==
  /\ Running
  /\ commands < MaxCommands
  /\ commands' = commands + 1
  /\ WriteOutcome(writeOk)
  /\ LET wc == MapSet(welcomeConfigs, g, config)
     IN  /\ welcomeConfigs' = wc
         /\ file' = SaveToFile(file, scheduledMessages, wc, userLevels, writeOk)
  /\ ev' = StoreEvent("saveWelcomeConfig", g, config, "")
  /\ UNCHANGED <<now, phase, botClient, scheduledMessages, userLevels, activeTimers,
                 timers, fires, resets, created, restarts, sends, cancelled, wiped,
                 freshlyReset, elapsed, xpAdded, calcSchedule, calcResult>>

\* removeWelcomeConfig(guildId): the file is written only when a
\* configuration was deleted
RemoveWelcomeConfig(g, writeOk) ==
  /\ Running
  /\ commands < MaxCommands
  /\ commands' = commands + 1
  /\ LET r == RemoveWelcome(welcomeConfigs, g)
     IN  /\ welcomeConfigs' = r.wc
         /\ IF r.result
            THEN /\ WriteOutcome(writeOk)
                 /\ file' = SaveToFile(file, scheduledMessages, r.wc, userLevels,
                                       writeOk)
            ELSE /\ NoWrite(writeOk)
                 /\ UNCHANGED file
         /\ ev' = StoreEvent("removeWelcomeConfig", g, "", r.result)
  /\ UNCHANGED <<now, phase, botClient, scheduledMessages, userLevels, activeTimers,
                 timers, fires, resets, created, restarts, sends, cancelled, wiped,
                 freshlyReset, elapsed, xpAdded, calcSchedule, calcResult>>

\* a message earns its author xpGained: addUserXP(guildId, userId, xpGained)
AwardXP(g, u, xpGained, writeOk) ==
  /\ Running
  /\ commands < MaxCommands
  /\ commands' = commands + 1
  /\ WriteOutcome(writeOk)
  /\ LET r == AddUserXP(userLevels, g, u, xpGained)
         key == UserKey(g, u)
     IN  /\ userLevels' = r.ul
         /\ file' = SaveToFile(file, scheduledMessages, welcomeConfigs, r.ul, writeOk)
         /\ xpAdded' = MapSet(xpAdded, key,
                              (IF key \in DOMAIN xpAdded THEN xpAdded[key] ELSE 0)
                                + xpGained)
         /\ ev' = StoreEvent("addUserXP", g, <<u, xpGained>>, r.total)
  /\ UNCHANGED <<now, phase, botClient, scheduledMessages, welcomeConfigs,
                 activeTimers, timers, fires, resets, created, restarts, sends,
                 cancelled, wiped, freshlyReset, elapsed, calcSchedule, calcResult>>

NextStore ==
  \/ ClientReady
  \/ SetupScheduledMessages
  \/ \E g \in Guilds, config \in WelcomeChoices, writeOk \in BOOLEAN :
       SaveWelcomeConfig(g, config, writeOk)
  \/ \E g \in Guilds, writeOk \in BOOLEAN : RemoveWelcomeConfig(g, writeOk)
  \/ \E g \in Guilds, u \in Users, xpGained \in XpAmounts, writeOk \in BOOLEAN :
       AwardXP(g, u, xpGained, writeOk)
  \/ \E g \in Guilds, name \in Names, schedule \in ScheduleChoices,
        sameMs \in BOOLEAN, writeOk \in BOOLEAN :
       ScheduleMessageCommand(g, name, schedule, sameMs, writeOk)
  \/ \E g \in Guilds, name \in RemoveNames, writeOk \in BOOLEAN :
       RemoveScheduledCommand(g, name, writeOk)
  \/ \E g \in Guilds : ResetStart(g)
  \/ \E g \in Guilds, writeOk \in BOOLEAN : ResetEnd(g, writeOk)

SpecStore == Init /\ [][NextStore]_vars

(***************************************************************************)
(* Properties.                                                             *)
(***************************************************************************)
TimersOf(id) == {t \in timers : t.cfg.id = id}

StoredEntry(id) == CHOOSE m \in StoredEntries(scheduledMessages) : m.id = id

\* a fire has ended without a successful send
FireFailed ==
  /\ ev.op \in {"fire", "settle"}
  /\ ev.res \in {"notDelivered", "sendFailed"}

\* a fire has ended, with or without a successful send
FireEnded ==
  \/ ev.op = "fire" /\ ev.res = "notDelivered"
  \/ ev.op = "settle"

\* C1: once an entry has been cancelled (remove-scheduled, or a reset of its
\* guild), no later timer expiry invokes channel.send for it, also when the
\* cancellation came while a fire of the entry was awaiting channel.send.
C1_NoSendAfterCancel ==
  (ev.op = "fire" /\ ev.res = "send") => ev.id \notin cancelled

\* C2: there is no state in which the reset has deleted an entry from the
\* Store while a timer of that entry is still pending: the timers are
\* cancelled before the deletion.
C2_NoTimerForWipedEntry ==
  \A t \in timers :
    t.cfg.id \in wiped => t.cfg.id \in StoredIds(scheduledMessages)

\* C3: when resetGuildConfig(g) returns, no timer is pending for an entry of
\* guild g.
C3_NoTimerAtResetReturn ==
  ev.op = "resetReturn" => \A t \in timers : t.cfg.guildId # ev.g

\* C4: an entry created by schedule-message whose guild is reset next, with
\* nothing in between, leaves the guild's list empty when the reset returns,
\* is never in the Store afterwards and channel.send is never invoked for it.
C4_CreateThenReset ==
  /\ (ev.op = "resetReturn" /\ ev.id # NoId)
       => GuildList(scheduledMessages, ev.g) = <<>>
  /\ \A id \in freshlyReset :
       id \notin StoredIds(scheduledMessages) /\ sends[id] = 0

\* C5: when the fire of a recurring entry ends without a successful send
\* (channel missing, permission missing, channel.send rejected) and the
\* entry is still in the Store, the entry has a pending timer again.
C5_FailedFireRearms ==
  (FireFailed /\ ev.recurring /\ ev.id \in StoredIds(scheduledMessages))
    => ev.id \in PendingIds(timers)

\* C6: when the fire of a once entry has ended, delivered or not, the entry
\* is absent from the Store and its id is absent from activeTimers.
C6_OnceGoneAfterFire ==
  (FireEnded /\ ~ev.recurring)
    => /\ ev.id \notin StoredIds(scheduledMessages)
       /\ ev.id \notin DOMAIN activeTimers

\* C7: channel.send is invoked at most once for a once entry, and a once
\* entry for which it has been invoked never has a timer again, restarts
\* included.
C7_OnceAtMostOnce ==
  /\ \A f \in fires : ~f.cfg.recurring => sends[f.cfg.id] <= 1
  /\ \A t \in timers : ~t.cfg.recurring => sends[t.cfg.id] = 0

\* C8: there is never more than one pending timer for an entry id, and a
\* schedule-message command that has armed its entry (a second scheduleMessage
\* for the id when the id repeats) leaves exactly one pending timer for it.
C8_AtMostOneTimer ==
  /\ \A t1, t2 \in timers : t1.cfg.id = t2.cfg.id => t1 = t2
  /\ (ev.op = "create" /\ phase = "ready")
       => Cardinality(TimersOf(ev.id)) =
            IF Armable(CalculateNextExecution(StoredEntry(ev.id).schedule, now))
            THEN 1 ELSE 0

\* C8 happens: two schedule-message commands of one guild read the same
\* millisecond, scheduleMessage has run twice for the one id, and one timer
\* is pending for it.
C8_Witness ==
  /\ ev.op = "create" /\ phase = "ready"
  /\ created = 2 /\ ev.id[2] = 1
  /\ StoredIds(scheduledMessages) \cap {<<g, 1>> : g \in Guilds} = {ev.id}
  /\ Cardinality(TimersOf(ev.id)) = 1

\* C9: once startup has completed and no reset of its guild is under way,
\* every enabled recurring entry of the Store (a recurring entry always has a
\* next occurrence) for which calculateNextExecution gives a positive delay
\* has a pending timer whenever no fire of it is executing.
C9_EnabledEntryHasTimer ==
  \A m \in StoredEntries(scheduledMessages) :
    ( /\ phase = "ready"
      /\ m.guildId \notin resets
      /\ m.enabled /\ m.recurring
      /\ Armable(CalculateNextExecution(m.schedule, now))
      /\ \A f \in fires : f.cfg.id # m.id )
    => m.id \in PendingIds(timers)

\* C10: when setupScheduledMessages has run in a started process, the ids
\* with a pending timer are exactly the enabled entries of the Store with a
\* positive delay, a disabled entry has no timer and no registry entry, and
\* startup (loadAllConfigs, setupScheduledMessages) leaves the Store with
\* the content of the file.
C10_SetupRebuildsRegistry ==
  /\ [](ev.op = "setup" =>
          /\ PendingIds(timers) =
               {m.id : m \in {x \in StoredEntries(scheduledMessages) :
                                x.enabled
                                /\ Armable(CalculateNextExecution(x.schedule, now))}}
          /\ \A m \in StoredEntries(scheduledMessages) :
               ~m.enabled => TimersOf(m.id) = {} /\ m.id \notin DOMAIN activeTimers)
  /\ [][/\ ClientReady => scheduledMessages' = LoadAllConfigs(file)
        /\ SetupScheduledMessages => UNCHANGED scheduledMessages]_vars

\* C10 happens: setupScheduledMessages has run after a restart, over a Store
\* that holds a disabled entry and an entry it has armed.
C10_Witness ==
  /\ ev.op = "setup" /\ restarts >= 1
  /\ timers # {}
  /\ \E m \in StoredEntries(scheduledMessages) : ~m.enabled

\* C11: a once entry that scheduleMessage found already elapsed, at its
\* creation or at a startup, never has a timer afterwards, and while no
\* write of the file has failed it stays in the Store until it is removed
\* or its guild is reset.
C11_ElapsedOnceNeverArmed ==
  /\ \A t \in timers : t.cfg.id \notin elapsed
  /\ (writeFailures = 0 /\ phase # "connecting")
       => \A id \in elapsed : id \in StoredIds(scheduledMessages) \/ id \in cancelled

\* C12: when schedule-message has saved its entry and emitted scheduleAdded
\* in a started process, the entry is in the Store and, if
\* calculateNextExecution does not return null for it, a timer of its id is
\* pending.
C12_CreateIsSynchronous ==
  (ev.op = "create" /\ phase = "ready")
    => /\ ev.id \in StoredIds(scheduledMessages)
       /\ ~CalculateNextExecution(StoredEntry(ev.id).schedule, now).isNull
            => TimersOf(ev.id) # {}

\* C13: after a fire of a recurring entry with a fulfilled send, the entry
\* is in the Store and has a pending timer that expires later (a timer set
\* in this minute expires later: setTimeout waits 1 ms at least).
C13_SuccessfulFireRearms ==
  (ev.op = "settle" /\ ev.res = "sent" /\ ev.recurring)
    => /\ ev.id \in StoredIds(scheduledMessages)
       /\ \E t \in TimersOf(ev.id) : t.due >= now

\* ids no create has produced, next to the ones in use
SomeIds == {<<g, k>> : g \in Guilds, k \in 0..(MaxCreates + 1)}

\* C14: removing what does not exist reports not found and changes nothing:
\* removeScheduledMessage with an id the guild's list does not hold returns
\* false and the same Store (so no write of the file), cancelScheduledMessage
\* with an id without registry entry returns false and the same registry,
\* removing a stored entry a second time changes nothing more, and a
\* remove-scheduled command that finds no entry of the name replies not
\* found and leaves Store, file, activeTimers and the pending timers alone.
C14_RemoveMissingIsNoOp ==
  /\ [](\A g \in Guilds, id \in SomeIds :
          id \notin IdsOf(GuildList(scheduledMessages, g))
            => RemoveScheduledMessage(scheduledMessages, g, id) =
                 [sm |-> scheduledMessages, changed |-> FALSE])
  /\ [](\A id \in SomeIds :
          id \notin DOMAIN activeTimers
            => CancelScheduledMessage(Registry(activeTimers, timers), id) =
                 [at |-> activeTimers, tm |-> timers, found |-> FALSE])
  /\ [](\A m \in StoredEntries(scheduledMessages) :
          LET once == RemoveScheduledMessage(scheduledMessages, m.guildId, m.id)
              twice == RemoveScheduledMessage(once.sm, m.guildId, m.id)
          IN  once.changed /\ ~twice.changed /\ twice.sm = once.sm)
  /\ [][(ev'.op = "remove" /\ ev'.res = "notFound")
          => /\ ev'.reply = "notFound"
             /\ UNCHANGED <<scheduledMessages, file, activeTimers, timers>>]_vars

\* C14 happens: remove-scheduled was given a name no entry of the guild has,
\* while the Store holds entries and a timer is pending.
C14_Witness ==
  /\ ev.op = "remove" /\ ev.res = "notFound"
  /\ StoredIds(scheduledMessages) # {}
  /\ timers # {}

\* C15: a schedule-message or remove-scheduled command that replies with
\* success has been written durably: the file holds the Store's entries.
C15_SuccessMeansDurable ==
  (ev.op \in {"create", "remove"} /\ ev.reply # "notFound")
    => LoadAllConfigs(file) = scheduledMessages

\* C16: a schedule-message command whose once entry is already elapsed
\* (calculateNextExecution returns null) replies with a not-armed status,
\* not with plain success.
C16_ElapsedCreateReportsNotArmed ==
  (ev.op = "create" /\ phase = "ready" /\ ev.id \in elapsed)
    => ev.reply = "notArmed"

\* the UTC time of day of a schedule, in minutes: local time minus offset,
\* modulo 24 h
ReferenceMinute(schedule) ==
  (schedule.hours * 60 + schedule.minutes - schedule.off2 * 30) % MinutesPerDay

Calculated == calcResult # <<>>

\* C17: for a daily schedule the delay d is 0 < d <= 24 h and now + d has
\* the schedule's UTC time of day.
C17_DailyWithinOneDay ==
  (Calculated /\ calcSchedule.type = "daily")
    => /\ ~calcResult[1].isNull
       /\ calcResult[1].delay > 0
       /\ calcResult[1].delay <= MinutesPerDay
       /\ MinuteOfDay(now + calcResult[1].delay) = ReferenceMinute(calcSchedule)

\* C18: for a weekly schedule the candidate is on the UTC weekday dayOfWeek,
\* after now and at most 7 days after now; on the target weekday at or after
\* the target minute it is 7 days later.
C18_WeeklyOnItsWeekday ==
  (Calculated /\ calcSchedule.type = "weekly")
    => /\ ~calcResult[1].isNull
       /\ calcResult[1].delay > 0
       /\ calcResult[1].delay <= 7 * MinutesPerDay
       /\ GetUTCDay(now + calcResult[1].delay) = calcSchedule.dayOfWeek
       /\ (GetUTCDay(now) = calcSchedule.dayOfWeek
           /\ MinuteOfDay(now) >= ReferenceMinute(calcSchedule))
            => DayOf(now + calcResult[1].delay) = DayOf(now) + 7

\* C19: calculateNextExecution returns null or a positive delay, and for a
\* recurring schedule a delay scheduleMessage does not refuse.
C19_NullOrPositive ==
  Calculated
    => /\ calcResult[1].isNull \/ calcResult[1].delay > 0
       /\ calcSchedule.type # "once" => Armable(calcResult[1])

\* offsets of UTC-12 .. UTC+14, half-hours included
ZoneOffsets2 == -24..28

\* C20: for an offset of UTC-12 .. UTC+14, half-hours included, the entry
\* fires at the UTC time of day (local time - offset) modulo 24 h, and the
\* reference hour lies in 0..23.
C20_FiresAtReferenceTime ==
  (Calculated /\ calcSchedule.off2 \in ZoneOffsets2)
    => /\ UtcHours2(calcSchedule) \in 0..47
       /\ ~calcResult[1].isNull
            => MinuteOfDay(now + calcResult[1].delay) = ReferenceMinute(calcSchedule)


\* C21: for a once schedule the candidate is today's UTC date at the
\* schedule's UTC time of day; the result is null whenever the candidate is
\* at or before now, and otherwise exactly candidate - now.
C21_OnceTodayOrNull ==
  (Calculated /\ calcSchedule.type = "once")
    => LET candidate == DayOf(now) * MinutesPerDay + ReferenceMinute(calcSchedule)
       IN  IF candidate <= now THEN calcResult[1].isNull
           ELSE /\ ~calcResult[1].isNull
                /\ calcResult[1].delay = candidate - now

\* whole-hour offsets of UTC-12 .. UTC+14
WholeZoneOffsets2 == {o \in ZoneOffsets2 : o % 2 = 0}

\* C22: a monthly candidate is on the day dayOfMonth of its month or, when
\* the month has no such day, on the last day of a month; it is never the
\* 1st, 2nd or 3rd that a day past the end of a month rolls over to.
C22_MonthlyNeverRollsOver ==
  (Calculated /\ calcSchedule.type = "monthly"
   /\ calcSchedule.off2 \in WholeZoneOffsets2 /\ ~calcResult[1].isNull)
    => LET candidate == now + calcResult[1].delay
       IN  \/ GetUTCDate(candidate) = calcSchedule.dayOfMonth
           \/ GetUTCDate(candidate) =
                DaysInMonth(GetUTCFullYear(candidate), GetUTCMonth(candidate))


\* the messages a further saveScheduledMessage call may bring
SavedMessages ==
  {MessageConfig(id, "news", id[1], schedule, TRUE) :
     id \in SomeIds, schedule \in ScheduleChoices}

\* C23: after any sequence of saveScheduledMessage calls the list
\* getGuildScheduledMessages returns holds one entry per id, a guild
\* without entries has the empty list, and one more save leaves exactly one
\* entry with the message's id, equal to the message: in the place of the
\* entry it replaces, or appended, the other entries staying as they were.
C23_OneEntryPerId ==
  /\ \A g \in Guilds :
       LET list == GuildList(scheduledMessages, g)
       IN  /\ \A i, j \in 1..Len(list) : list[i].id = list[j].id => i = j
           /\ g \notin DOMAIN scheduledMessages => list = <<>>
  /\ ev.op = "create"
       => \E i \in 1..Len(GuildList(scheduledMessages, ev.g)) :
            GuildList(scheduledMessages, ev.g)[i].id = ev.id
  /\ \A m \in SavedMessages :
       LET before == GuildList(scheduledMessages, m.guildId)
           after == GuildList(SaveScheduledMessage(scheduledMessages, m.guildId, m),
                              m.guildId)
           Other(x) == x.id # m.id
       IN  /\ Cardinality({i \in 1..Len(after) : after[i].id = m.id}) = 1
           /\ \A i \in 1..Len(after) : after[i].id = m.id => after[i] = m
           /\ SelectSeq(after, Other) = SelectSeq(before, Other)
           /\ IF \E i \in 1..Len(before) : before[i].id = m.id
              THEN /\ Len(after) = Len(before)
                   /\ \A i \in 1..Len(before) : before[i].id = m.id => after[i] = m
              ELSE after = Append(before, m)

\* C23 happens: a second schedule-message command has saved an entry under
\* the id of the first, which it replaced.
C23_Witness ==
  /\ ev.op = "create" /\ created = 2 /\ now = StartNow
  /\ StoredIds(scheduledMessages) = {DisabledEntry.id, ev.id}


\* C24: as long as every write of the file has succeeded, what
\* loadAllConfigs reads from the file saveToFile wrote is the Store of the
\* running process, entry for entry with every field: a restart brings back
\* the entries the Store had before it.
C24_RestartKeepsEntries ==
  (writeFailures = 0 /\ phase # "connecting")
    => LoadAllConfigs(file) = scheduledMessages

\* C24 happens: after a restart the Store holds again a created daily entry
\* with its timezoneOffset of +6, every write having succeeded.
C24_Witness ==
  /\ restarts = 1 /\ phase = "ready" /\ writeFailures = 0
  /\ ev.op = "setup"
  /\ \E m \in StoredEntries(scheduledMessages) :
       m.enabled /\ m.schedule.type = "daily" /\ m.schedule.off2 = 12


\* C25: getWelcomeConfig after saveWelcomeConfig(g, c) returns c;
\* removeWelcomeConfig returns true exactly when the guild had a
\* configuration, and getWelcomeConfig returns null afterwards; removing an
\* absent configuration returns false and changes neither the Store nor the
\* file.
C25_WelcomeConfigStore ==
  [][/\ ev'.op = "saveWelcomeConfig"
          => GetWelcomeConfig(welcomeConfigs', ev'.g) = Some(ev'.arg)
     /\ ev'.op = "removeWelcomeConfig"
          => /\ ev'.res = (GetWelcomeConfig(welcomeConfigs, ev'.g) # <<>>)
             /\ GetWelcomeConfig(welcomeConfigs', ev'.g) = <<>>
             /\ ~ev'.res => UNCHANGED <<welcomeConfigs, userLevels, scheduledMessages,
                                        file, activeTimers, timers>>]_vars

\* C25 happens: welcome configurations were saved for two guilds and
\* removeWelcomeConfig has removed one of them, returning true; the other
\* guild still has its own.
C25_Witness ==
  /\ ev.op = "removeWelcomeConfig" /\ ev.res = TRUE
  /\ GetWelcomeConfig(welcomeConfigs, ev.g) = <<>>
  /\ \E g \in Guilds \ {ev.g} : GetWelcomeConfig(welcomeConfigs, g) # <<>>


\* the sum of the amounts addUserXP added for a user
AmountsAdded(g, u) ==
  IF UserKey(g, u) \in DOMAIN xpAdded THEN xpAdded[UserKey(g, u)] ELSE 0

\* C27: getUserLevel gives xp 0 and level 0 for a user nothing was added
\* for, and for every user an xp that is the sum of the amounts added;
\* addUserXP(g, u, n) returns the previous xp plus n, and getUserLevel
\* reports that total afterwards.
C27_XpIsSumOfAmounts ==
  /\ [](\A g \in Guilds, u \in Users :
          /\ GetUserLevel(userLevels, g, u).xp = AmountsAdded(g, u)
          /\ UserKey(g, u) \notin DOMAIN xpAdded
               => GetUserLevel(userLevels, g, u) = [xp |-> 0, level |-> 0])
  /\ [][ev'.op = "addUserXP"
          => /\ ev'.res = GetUserLevel(userLevels, ev'.g, ev'.arg[1]).xp + ev'.arg[2]
             /\ GetUserLevel(userLevels', ev'.g, ev'.arg[1]).xp = ev'.res]_vars

\* C27 happens: addUserXP has added to the xp a user already had, while
\* another user of the guild is still unknown.
C27_Witness ==
  /\ ev.op = "addUserXP"
  /\ ev.res > ev.arg[2]
  /\ \E u \in Users : UserKey(ev.g, u) \notin DOMAIN userLevels


\* what the Store and the runtime hold for a guild: entries, welcome
\* configuration, user levels, registry entries and pending timers
GuildState(sm, wc, ul, at, tm, g) ==
  [hasList |-> g \in DOMAIN sm,
   entries |-> GuildList(sm, g),
   welcome |-> GetWelcomeConfig(wc, g),
   levels |-> [k \in {x \in DOMAIN ul : x[1] = g} |-> ul[k]],
   registry |-> [id \in {x \in DOMAIN at : x[1] = g} |-> at[id]],
   pending |-> {t \in tm : t.cfg.guildId = g}]

\* C26: a schedule-message or remove-scheduled command in guild A, and
\* resetGuildConfig for guild A (its listener and its deletions), leave the
\* entries, the configurations, the user levels and the pending timers of
\* every other guild B as they were.
C26_GuildIsolation ==
  [][ev'.op \in {"create", "remove", "resetStart", "resetReturn"}
       => \A g \in Guilds \ {ev'.g} :
            GuildState(scheduledMessages', welcomeConfigs', userLevels',
                       activeTimers', timers', g)
              = GuildState(scheduledMessages, welcomeConfigs, userLevels,
                           activeTimers, timers, g)]_vars

\* C26 happens: resetGuildConfig has deleted the entries of guild 1 while
\* guild 2 has an entry with a pending timer and a welcome configuration.
C26_Witness ==
  /\ ev.op = "resetReturn" /\ ev.g = 1 /\ ev.res = "removed"
  /\ GetWelcomeConfig(welcomeConfigs, 2) # <<>>
  /\ \E m \in RangeOf(GuildList(scheduledMessages, 2)) : TimersOf(m.id) # {}


\* C28: the id a schedule-message command gives its entry is the id of no
\* entry created before it (nor of one loaded from the file), also when the
\* two commands of a guild fall into the same millisecond.
C28_CreatedIdsAreDistinct ==
  [][ev'.op = "create" => ev'.id \notin DOMAIN sends]_vars


\* C29: an id with a pending timer is the id of an entry of the Store when
\* a fire has ended: a recurring entry that was removed or reset while its
\* fire was executing has not been re-armed.
C29_RemovedEntryNotRearmed ==
  (ev.op = "settle" /\ ev.recurring /\ ev.id \notin StoredIds(scheduledMessages))
    => ev.id \notin PendingIds(timers)


\* C30: the operations on one id are serialized: while a fire of an entry
\* is between its start and its end, no remove-scheduled command, reset or
\* scheduleMessage call changes the entry in the Store, its registry entry
\* or its pending timers.
C30_FireIsNotInterleaved ==
  [][ev'.op \in {"create", "remove", "resetStart", "resetReturn", "setup"}
       => \A f \in fires \cap fires' :
            LET id == f.cfg.id
            IN  /\ {m \in StoredEntries(scheduledMessages') : m.id = id}
                     = {m \in StoredEntries(scheduledMessages) : m.id = id}
                /\ (id \in DOMAIN activeTimers') = (id \in DOMAIN activeTimers)
                /\ {t \in timers' : t.cfg.id = id} = TimersOf(id)]_vars

\* C31: a schedule-message or remove-scheduled command whose write of the
\* file fails leaves the registry and the pending timers as they were: no
\* timer is armed and none is cancelled.
C31_FailedWriteKeepsRegistry ==
  [][(ev'.op \in {"create", "remove"} /\ writeFailures' # writeFailures)
       => UNCHANGED <<activeTimers, timers>>]_vars

\* C32: the registry holds no handle of a timer that has expired: when a
\* fire has ended without re-arming or retiring its entry (channel missing,
\* permission missing, send rejected), activeTimers has no handle for the
\* id, or the handle of a pending timer.
C32_NoExpiredHandle ==
  FireFailed
    => (ev.id \in DOMAIN activeTimers
          => \E t \in timers : t.h = activeTimers[ev.id])

\* C33: a fire of one entry, whatever fails in it (channel missing,
\* permission missing, send rejected, write of the file refused), ends
\* inside executeScheduledMessage: the process goes on as it was, and the
\* Store entries, registry entries and pending timers of every other entry
\* are unchanged; a failed fire changes nothing of the Store at all.
C33_FireFailureIsContained ==
  [][ev'.op \in {"fire", "settle"}
       => /\ UNCHANGED <<phase, botClient, restarts, resets, welcomeConfigs, userLevels>>
          /\ {m \in StoredEntries(scheduledMessages') : m.id # ev'.id}
               = {m \in StoredEntries(scheduledMessages) : m.id # ev'.id}
          /\ {t \in timers' : t.cfg.id # ev'.id} = {t \in timers : t.cfg.id # ev'.id}
          /\ \A id \in (DOMAIN activeTimers \cup DOMAIN activeTimers') \ {ev'.id} :
               /\ id \in DOMAIN activeTimers /\ id \in DOMAIN activeTimers'
               /\ activeTimers'[id] = activeTimers[id]
          /\ ev'.res \in {"notDelivered", "sendFailed"}
               => UNCHANGED <<scheduledMessages, file, activeTimers>>]_vars

\* C33 happens: channel.send of one entry's fire was rejected while another
\* entry of the Store has a pending timer.
C33_Witness ==
  /\ ev.op = "settle" /\ ev.res = "sendFailed"
  /\ \E m \in StoredEntries(scheduledMessages) : m.id # ev.id /\ TimersOf(m.id) # {}

\* C34: remove-scheduled with a name several entries of the guild share
\* removes exactly one entry, the first with that name in the order of the
\* guild's list, and cancels the timer of that entry only; every other
\* entry stays in the Store, and its registry entry and pending timer stay.
C34_RemovesFirstOfName ==
  [][(ev'.op = "remove" /\ ev'.res # "notFound")
       => LET list == GuildList(scheduledMessages, ev'.g)
              Others(m) == m.id # ev'.id
          IN  /\ \E i \in 1..Len(list) :
                   /\ list[i].id = ev'.id
                   /\ \A j \in 1..(i - 1) : list[j].name # list[i].name
              /\ Len(GuildList(scheduledMessages', ev'.g)) = Len(list) - 1
              /\ GuildList(scheduledMessages', ev'.g) = SelectSeq(list, Others)
              /\ \A g \in Guilds \ {ev'.g} :
                   GuildList(scheduledMessages', g) = GuildList(scheduledMessages, g)
              /\ ev'.id \notin DOMAIN activeTimers'
              /\ {t \in timers' : t.cfg.id = ev'.id} = {}
              /\ {t \in timers' : t.cfg.id # ev'.id}
                   = {t \in timers : t.cfg.id # ev'.id}
              /\ \A id \in DOMAIN activeTimers \ {ev'.id} :
                   id \in DOMAIN activeTimers' /\ activeTimers'[id] = activeTimers[id]]_vars

\* C34 happens: remove-scheduled has removed the first of two entries of a
\* guild with the same name; the second is in the Store with its timer
\* pending.
C34_Witness ==
  /\ ev.op = "remove" /\ ev.res = "timerCleared"
  /\ \E m \in RangeOf(GuildList(scheduledMessages, ev.g)) :
       /\ m.name = "news" /\ m.id[2] > ev.id[2]
       /\ TimersOf(m.id) # {}

\* C35: a timer that scheduleMessage arms expires no earlier than the delay
\* calculateNextExecution returned, also when that delay is above the
\* 2^31 - 1 ms a timeout can take.
C35_TimerNotBeforeItsDelay ==
  [][\A t \in timers' \ timers :
       t.due >= now' + CalculateNextExecution(t.cfg.schedule, now').delay]_vars

\* C36: for every whole timezone offset, whatever its size, the UTC hour
\* (hours - offset + 24) % 24 lies in 0..23, and a daily, weekly or monthly
\* schedule gets a positive delay, so that scheduleMessage arms it.
C36_UtcHourInRange ==
  (Calculated /\ calcSchedule.off2 % 2 = 0)
    => /\ UtcHours2(calcSchedule) \in 0..47
       /\ calcSchedule.type # "once" => Armable(calcResult[1])

====
